---- MODULE Spec2Model ----
(***************************************************************************)
(* State machine of the TLS 1.3 handshake simulation (src/App.tsx, with    *)
(* the earlier revision src/unnamed/part_001 and the service module        *)
(* src/unnamed/part_002).                                                  *)
(*                                                                         *)
(* The component is a React function component.  Its hook state is the     *)
(* pair (currentStepIndex, isPlaying) plus aiTip.  The handlers are        *)
(* closures of the last committed render: a guard such as                  *)
(* `currentStepIndex < STEPS_SEQUENCE.length - 1` reads the value captured *)
(* by that render (variable rendered), while a functional update           *)
(* `prev => prev + 1` is applied to the hook state itself.  A click is a   *)
(* discrete event, React re-renders before the next event; the callback of *)
(* setInterval runs outside any React event, its update is rendered in a   *)
(* later task (action Render), and until then the handlers on screen are   *)
(* those of the previous render.                                           *)
(***************************************************************************)
EXTENDS Integers, Sequences, FiniteSets, TLC

\* Bound on the enrichment requests outstanding at the same time.
MaxInflight == 2

\* Bound on the length of the chat transcript.
MaxTurns == 4

\* Bound on the counted length of a run of sequential advances.
MaxRun == 7

STEPS_SEQUENCE ==
  << "IDLE", "CLIENT_HELLO", "SERVER_HELLO", "KEY_DERIVATION",
     "SERVER_FINISHED", "CLIENT_FINISHED", "SECURE_TUNNEL" >>

LEN == Len(STEPS_SEQUENCE)

\* STEPS_SEQUENCE[i] with the 0-based index of the source; out of range it
\* is JavaScript's undefined.
StepAt(i) == IF i \in 0 .. (LEN - 1) THEN STEPS_SEQUENCE[i + 1] ELSE "undefined"

\* Variant of simulationState: isEncrypted from Client Finished on.
simulationState_EncryptedEarly(i) ==
  [ step |-> StepAt(i),
    keysExchanged |-> i >= 3,
    isEncrypted |-> i >= LEN - 2,
    clientKey |-> IF i >= 3 THEN "generated" ELSE "undefined",
    serverKey |-> IF i >= 3 THEN "generated" ELSE "undefined" ]

\* Variant of simulationState: the server's key from Server Hello on.
simulationState_ServerKeyEarly(i) ==
  [ step |-> StepAt(i),
    keysExchanged |-> i >= 3,
    isEncrypted |-> StepAt(i) = "SECURE_TUNNEL",
    clientKey |-> IF i >= 3 THEN "generated" ELSE "undefined",
    serverKey |-> IF i >= 2 THEN "generated" ELSE "undefined" ]

\* The SimulationState derived in a render of index i.
simulationState(i) ==
  [ step |-> StepAt(i),
    keysExchanged |-> i >= 3,
    isEncrypted |-> StepAt(i) = "SECURE_TUNNEL",
    clientKey |-> IF i >= 3 THEN "generated" ELSE "undefined",
    serverKey |-> IF i >= 3 THEN "generated" ELSE "undefined" ]

VARIABLES
  currentStepIndex,  \* hook state of useState(0)
  isPlaying,         \* hook state of useState(false)
  rendered,          \* [idx, playing]: the values the closures of the last committed render captured
  interval,          \* NoInterval, or the live setInterval with the index its handleNext captured
  mounted,           \* FALSE once the component is torn down
  apiKey,            \* process.env.API_KEY is present
  aiTip,             \* [text, for]: the displayed tip and the stage index whose effect run produced it
  inflight,          \* [1..6 -> Nat]: getStepDeepDive calls awaiting the service, per stage index
  chatInput,         \* hook state of useState(''): the input buffer, a sequence of characters
  chatHistory,       \* hook state of useState<ChatMessage[]>([])
  isLoading,         \* hook state of useState(false)
  chatPending,       \* explainConcept calls awaiting the service: sequence of [concept, context]
  last               \* history: the last operation and the state before it

chatVars == << chatInput, chatHistory, isLoading, chatPending >>

vars == << currentStepIndex, isPlaying, rendered, interval, mounted, apiKey,
           aiTip, inflight, chatInput, chatHistory, isLoading, chatPending, last >>

NoInterval == [live |-> FALSE, idx |-> 0]

Hook == [idx |-> currentStepIndex, playing |-> isPlaying]

\* A render is pending: the hook state differs from what is on screen.
Dirty == Hook # rendered

----------------------------------------------------------------------------
(* Handlers.  c and p are the closure's currentStepIndex and isPlaying, st *)
(* is the hook state the queued updates are applied to.                    *)

\* Variant of handleNext: the update adds 2.
handleNext_Skips(c, st) ==
  IF c < LEN - 1 THEN [st EXCEPT !.idx = @ + 2]
                 ELSE [st EXCEPT !.playing = FALSE]

\* Variant of handleNext: the else branch, setIsPlaying(false), left out.
handleNext_NeverStops(c, st) ==
  IF c < LEN - 1 THEN [st EXCEPT !.idx = @ + 1] ELSE st

\* Variant of handleNext: no test of the last stage.
handleNext_NoGuard(c, st) == [st EXCEPT !.idx = @ + 1]

\* Variant of handleNext: the advance that arrives at the last stage clears
\* the flag as well.
handleNext_StopsOnArrival(c, st) ==
  IF c < LEN - 1 THEN [idx |-> st.idx + 1, playing |-> st.playing /\ c + 1 < LEN - 1]
                 ELSE [st EXCEPT !.playing = FALSE]

handleNext(c, st) ==
  IF c < LEN - 1 THEN [st EXCEPT !.idx = @ + 1]
                 ELSE [st EXCEPT !.playing = FALSE]

\* Variant of handlePrev: setCurrentStepIndex(currentStepIndex - 1), the
\* closure's value instead of the functional update.
handlePrev_FromClosure(c, st) ==
  IF c > 0 THEN [st EXCEPT !.idx = c - 1] ELSE st

\* Variant of handlePrev: a retreat also runs setIsPlaying(false).
handlePrev_Pauses(c, st) ==
  IF c > 0 THEN [idx |-> st.idx - 1, playing |-> FALSE] ELSE st

handlePrev(c, st) ==
  IF c > 0 THEN [st EXCEPT !.idx = @ - 1] ELSE st

\* Variant of handleReset: setIsPlaying(false) left out.
handleReset_KeepsPlaying(st) == [idx |-> 0, playing |-> st.playing]

\* Variant of handleReset: no reset while a chat answer is awaited.
handleReset_UnlessLoading(st) ==
  IF isLoading THEN st ELSE [idx |-> 0, playing |-> FALSE]

handleReset(st) == [idx |-> 0, playing |-> FALSE]

\* Variant of togglePlay: starting to play always replays from stage 0.
togglePlay_AlwaysReplay(c, p, st) ==
  IF ~p THEN [handleReset(st) EXCEPT !.playing = TRUE]
        ELSE [st EXCEPT !.playing = FALSE]

togglePlay(c, p, st) ==
  IF c = LEN - 1 THEN [handleReset(st) EXCEPT !.playing = TRUE]
                 ELSE [st EXCEPT !.playing = ~p]

----------------------------------------------------------------------------
(* Service module.                                                         *)

Outcomes == {"text", "empty", "thrown"}

\* Variant of getStepDeepDive: the catch block returns the default of an
\* empty response.
getStepDeepDive_CatchAsEmpty(key, outcome) ==
  IF ~key THEN "API Key required for AI insights."
  ELSE IF outcome \in {"thrown", "empty"} THEN "No details available."
  ELSE "response.text"

\* The string getStepDeepDive resolves to, for a service outcome.
getStepDeepDive(key, outcome) ==
  IF ~key THEN "API Key required for AI insights."
  ELSE IF outcome = "thrown" THEN "AI Service temporarily unavailable."
  ELSE IF outcome = "empty" THEN "No details available."
  ELSE "response.text"

\* Variant of explainConcept: return response.text, without the default.
explainConcept_NoDefault(key, outcome) ==
  IF ~key THEN "API Key is missing. Please configure your environment to use the AI assistant."
  ELSE IF outcome = "thrown" THEN "Failed to retrieve explanation. Please try again later."
  ELSE IF outcome = "empty" THEN ""
  ELSE "response.text"

\* The string explainConcept resolves to, for a service outcome.
explainConcept(key, outcome) ==
  IF ~key THEN "API Key is missing. Please configure your environment to use the AI assistant."
  ELSE IF outcome = "thrown" THEN "Failed to retrieve explanation. Please try again later."
  ELSE IF outcome = "empty" THEN "No explanation generated."
  ELSE "response.text"

\* STEP_DETAILS[STEPS_SEQUENCE[i]].title
Title(i) ==
  << "1. Initial State (TCP Connected)", "2. Client Hello",
     "3. Server Hello & Certificate", "4. Key Derivation", "5. Server Finished",
     "6. Client Finished", "7. Secure Data Tunnel" >>[i + 1]

PLACEHOLDER == "Analyzing protocol step..."
READY == "Click \"Start\" or \"Play\" to begin the TLS 1.3 handshake analysis."

TotalInflight == inflight[1] + inflight[2] + inflight[3] + inflight[4] + inflight[5] + inflight[6]

----------------------------------------------------------------------------
(* Effects, run when a render commits.  old and new are the values of the  *)
(* previous and of the committed render.                                   *)

\* Variant of timerEffect: the effect returns no cleanup, a pause leaves
\* the interval running.
timerEffect_NoCleanup(old, new, iv) ==
  IF old = new THEN iv
  ELSE IF new.playing THEN [live |-> TRUE, idx |-> new.idx]
  ELSE iv

\* Variant of timerEffect: no interval is set at the last stage.
timerEffect_NoneAtTerminal(old, new, iv) ==
  IF old = new THEN iv
  ELSE IF new.playing /\ new.idx < LEN - 1 THEN [live |-> TRUE, idx |-> new.idx]
  ELSE NoInterval

\* useEffect(..., [isPlaying, currentStepIndex]): cleanup clears the
\* interval, the effect sets a new one when isPlaying.
timerEffect(old, new, iv) ==
  IF old = new THEN iv
  ELSE IF new.playing THEN [live |-> TRUE, idx |-> new.idx]
  ELSE NoInterval

\* Variant of stepChanged: the effect's deps are [currentStep, isPlaying].
stepChanged_OrFlag(old, new) == old # new

\* useEffect(..., [currentStep]) runs on a change of the stage.
stepChanged(old, new) == StepAt(old.idx) # StepAt(new.idx)

\* Variant of issues: getStepDeepDive without its test of the key.
issues_NoKeyTest(old, new) == stepChanged(old, new) /\ StepAt(new.idx) # "IDLE"

\* The effect issues a request (the service is called) for the new stage.
issues(old, new) == stepChanged(old, new) /\ StepAt(new.idx) # "IDLE" /\ apiKey

tipEffect(old, new, tip) ==
  IF ~stepChanged(old, new) THEN tip
  ELSE IF StepAt(new.idx) = "IDLE" THEN [text |-> READY, for |-> new.idx]
  ELSE IF apiKey THEN [text |-> PLACEHOLDER, for |-> new.idx]
  ELSE [text |-> getStepDeepDive(apiKey, "text"), for |-> new.idx]

\* Variant of inflightEffect: fetchQuickTip calls the service twice.
inflightEffect_Twice(old, new, fl) ==
  IF issues(old, new) THEN [fl EXCEPT ![new.idx] = @ + 2] ELSE fl

inflightEffect(old, new, fl) ==
  IF issues(old, new) THEN [fl EXCEPT ![new.idx] = @ + 1] ELSE fl

\* The render of hook state new throws: stepInfo is undefined and the
\* markup reads stepInfo.title.
renderThrows(new) == StepAt(new.idx) = "undefined"

\* React renders hook state new and commits it.  A render that throws is
\* not committed: without an error boundary the tree is unmounted, which
\* runs the cleanup of the effects.
Commit(new) ==
  /\ issues(rendered, new) => TotalInflight < MaxInflight
  /\ currentStepIndex' = new.idx
  /\ isPlaying' = new.playing
  /\ IF renderThrows(new)
       THEN /\ mounted' = FALSE
            /\ interval' = NoInterval
            /\ UNCHANGED << rendered, aiTip, inflight >>
       ELSE /\ rendered' = new
            /\ interval' = timerEffect(rendered, new, interval)
            /\ aiTip' = tipEffect(rendered, new, aiTip)
            /\ inflight' = inflightEffect(rendered, new, inflight)
            /\ UNCHANGED mounted
  /\ UNCHANGED apiKey
  /\ UNCHANGED chatVars

Min(a, b) == IF a < b THEN a ELSE b

\* The number of advances made one after the other, each on a rendered
\* state, since the index was last 0; -1 when the run was broken by a
\* retreat or by an advance made before the previous update was rendered.
\* Evaluated in a step, after the hook state of the next state is set.
runAfter(op) ==
  IF currentStepIndex' = 0 THEN 0
  ELSE IF op \in {"next", "tick"}
    THEN IF last.run >= 0 /\ ~Dirty THEN Min(last.run + 1, MaxRun) ELSE 0 - 1
  ELSE IF op = "prev" THEN 0 - 1
  ELSE last.run

\* The history of a step: the operation, its argument, the outcome of the
\* service call it resolves ("none" for the other operations), and the
\* state before it.
RecordOutcome(op, arg, out) ==
  last' = [op |-> op, idx |-> currentStepIndex, playing |-> isPlaying, arg |-> arg,
           out |-> out,
           ridx |-> rendered.idx, len |-> Len(chatHistory), loading |-> isLoading,
           run |-> runAfter(op)]

Record(op, arg) == RecordOutcome(op, arg, "none")

----------------------------------------------------------------------------
Init ==
  /\ currentStepIndex = 0
  /\ isPlaying = FALSE
  /\ rendered = [idx |-> 0, playing |-> FALSE]
  /\ interval = NoInterval
  /\ mounted = TRUE
  /\ apiKey \in BOOLEAN
  /\ aiTip = [text |-> READY, for |-> 0]
  /\ inflight = [s \in 1 .. (LEN - 1) |-> 0]
  /\ chatInput = << >>
  /\ chatHistory = << >>
  /\ isLoading = FALSE
  /\ chatPending = << >>
  /\ last = [op |-> "init", idx |-> 0, playing |-> FALSE, arg |-> 0, out |-> "none",
             ridx |-> 0, len |-> 0, loading |-> FALSE, run |-> 0]

\* onClick={handleNext} disabled={currentStepIndex === STEPS_SEQUENCE.length - 1}
UserNext ==
  /\ mounted
  /\ rendered.idx # LEN - 1
  /\ Commit(handleNext(rendered.idx, Hook))
  /\ Record("next", 0)

\* onClick={handlePrev} disabled={currentStepIndex === 0}
UserPrev ==
  /\ mounted
  /\ rendered.idx # 0
  /\ Commit(handlePrev(rendered.idx, Hook))
  /\ Record("prev", 0)

\* onClick={handleReset}
UserReset ==
  /\ mounted
  /\ Commit(handleReset(Hook))
  /\ Record("reset", 0)

\* onClick={togglePlay}
UserTogglePlay ==
  /\ mounted
  /\ Commit(togglePlay(rendered.idx, rendered.playing, Hook))
  /\ Record("toggle", 0)

\* The interval fires: handleNext of the render that set it.  The update is
\* queued; the render follows in a later task.  The period (5000 ms) is far
\* longer than that, so no second tick precedes the render.
TickEnabled == mounted /\ interval.live /\ ~Dirty

\* Variant of Tick: the interval's callback also runs setIsLoading(false).
Tick_ClearsLoading ==
  /\ TickEnabled
  /\ LET st == handleNext(interval.idx, Hook) IN
       /\ currentStepIndex' = st.idx
       /\ isPlaying' = st.playing
  /\ isLoading' = FALSE
  /\ UNCHANGED << rendered, interval, mounted, apiKey, aiTip, inflight >>
  /\ UNCHANGED << chatInput, chatHistory, chatPending >>
  /\ Record("tick", 0)

Tick ==
  /\ TickEnabled
  /\ LET st == handleNext(interval.idx, Hook) IN
       /\ currentStepIndex' = st.idx
       /\ isPlaying' = st.playing
  /\ UNCHANGED << rendered, interval, mounted, apiKey, aiTip, inflight >>
  /\ UNCHANGED chatVars
  /\ Record("tick", 0)

\* The scheduled render of the update queued by a tick.
Render ==
  /\ mounted
  /\ Dirty
  /\ Commit(Hook)
  /\ Record("render", 0)

\* A getStepDeepDive call issued for stage index s resolves: the
\* continuation of fetchQuickTip runs setAiTip(tip).
TipArrives(s, outcome) ==
  /\ inflight[s] > 0
  /\ inflight' = [inflight EXCEPT ![s] = @ - 1]
  /\ aiTip' = IF mounted THEN [text |-> getStepDeepDive(apiKey, outcome), for |-> s]
                         ELSE aiTip
  /\ UNCHANGED << currentStepIndex, isPlaying, rendered, interval, mounted, apiKey >>
  /\ UNCHANGED chatVars
  /\ RecordOutcome("tip", s, outcome)

----------------------------------------------------------------------------
(* Chat.  The form is part of the markup while the chat panel is open;     *)
(* opening and closing the panel changes nothing else and is left out.     *)

\* The values typed into the input: empty, blank, and a question with a
\* leading blank.
Inputs == { << >>, << " " >>, << " ", "a" >> }

RECURSIVE trimStart(_)
trimStart(s) ==
  IF s # << >> /\ Head(s) = " " THEN trimStart(Tail(s)) ELSE s

RECURSIVE trimEnd(_)
trimEnd(s) ==
  IF s # << >> /\ s[Len(s)] = " " THEN trimEnd(SubSeq(s, 1, Len(s) - 1)) ELSE s

\* Variant of trim: the handler tests !chatInput.
trim_None(s) == s

\* String.prototype.trim
trim(s) == trimEnd(trimStart(s))

\* Variant of sendDisabled: the button is never disabled.
sendDisabled_Never == FALSE

\* <button type="submit" disabled={isLoading}>: a disabled default button
\* blocks the click and the implicit submission by Enter.
sendDisabled == isLoading

\* Variant of userTurn: the question is given the responder's role.
userTurn_AsModel(text) == [role |-> "model", text |-> text, isError |-> FALSE]

\* { role: 'user', text: userMsg }
userTurn(text) == [role |-> "user", text |-> text, isError |-> FALSE]

\* Variant of modelTurn: the answer is given the asker's role.
modelTurn_AsUser(text) == [role |-> "user", text |-> << text >>, isError |-> FALSE]

\* { role: 'model', text: response }: isError is not set.  A text is a
\* sequence of symbols, the service's answer a single symbol.
modelTurn(text) == [role |-> "model", text |-> << text >>, isError |-> FALSE]

\* Variant of appendTurn: [msg, ...prev].
appendTurn_Prepends(prev, msg) == << msg >> \o prev

\* setChatHistory(prev => [...prev, msg])
appendTurn(prev, msg) == Append(prev, msg)

\* Variant of chatContinuation: setIsLoading(false) left out.
chatContinuation_KeepsLoading(prev, response) ==
  [history |-> appendTurn(prev, modelTurn(response)), loading |-> TRUE]

\* The continuation of handleChatSubmit after its await.
chatContinuation(prev, response) ==
  [history |-> appendTurn(prev, modelTurn(response)), loading |-> FALSE]

\* Variant of chatRequest: the context is the title of the first stage.
chatRequest_FirstTitle(userMsg, title) == [concept |-> userMsg, context |-> Title(0)]

\* Variant of chatRequest: the question is sent trimmed.
chatRequest_Trimmed(userMsg, title) == [concept |-> trim(userMsg), context |-> title]

\* explainConcept(userMsg, stepInfo.title): what the prompt of the request
\* is built from.
chatRequest(userMsg, title) == [concept |-> userMsg, context |-> title]

\* onChange={(e) => setChatInput(e.target.value)}
TypeInput(v) ==
  /\ mounted
  /\ v # chatInput
  /\ chatInput' = v
  /\ UNCHANGED << currentStepIndex, isPlaying, rendered, interval, mounted, apiKey,
                  aiTip, inflight, chatHistory, isLoading, chatPending >>
  /\ Record("type", 0)

\* handleChatSubmit up to its await.  Without a key explainConcept
\* resolves at once and the continuation runs before any other event.
handleChatSubmit ==
  IF trim(chatInput) = << >>
    THEN UNCHANGED chatVars
    ELSE /\ Len(chatHistory) + 2 <= MaxTurns
         /\ chatInput' = << >>
         /\ IF apiKey
              THEN /\ chatHistory' = appendTurn(chatHistory, userTurn(chatInput))
                   /\ isLoading' = TRUE
                   /\ chatPending' = Append(chatPending,
                          chatRequest(chatInput, Title(rendered.idx)))
              ELSE LET c == chatContinuation(appendTurn(chatHistory, userTurn(chatInput)),
                                             explainConcept(apiKey, "text")) IN
                     /\ chatHistory' = c.history
                     /\ isLoading' = c.loading
                     /\ UNCHANGED chatPending

\* The user presses Send or Enter in the form.
UserSubmit ==
  /\ mounted
  /\ IF sendDisabled THEN UNCHANGED chatVars ELSE handleChatSubmit
  /\ UNCHANGED << currentStepIndex, isPlaying, rendered, interval, mounted, apiKey,
                  aiTip, inflight >>
  /\ Record("submit", 0)

\* The i-th outstanding explainConcept call resolves: the continuation of
\* handleChatSubmit appends the answer and clears isLoading.
ReplyArrives(i, outcome) ==
  /\ i \in DOMAIN chatPending
  /\ chatPending' = [j \in 1 .. (Len(chatPending) - 1) |->
                       IF j < i THEN chatPending[j] ELSE chatPending[j + 1]]
  /\ IF mounted
       THEN LET c == chatContinuation(chatHistory, explainConcept(apiKey, outcome)) IN
              /\ chatHistory' = c.history
              /\ isLoading' = c.loading
       ELSE UNCHANGED << chatHistory, isLoading >>
  /\ UNCHANGED << currentStepIndex, isPlaying, rendered, interval, mounted, apiKey,
                  aiTip, inflight, chatInput >>
  /\ RecordOutcome("reply", IF outcome = "thrown" THEN 1 ELSE 0, outcome)

\* The component is torn down: the effect's cleanup clears the interval.
Unmount ==
  /\ mounted
  /\ mounted' = FALSE
  /\ interval' = NoInterval
  /\ UNCHANGED << currentStepIndex, isPlaying, rendered, apiKey, aiTip, inflight >>
  /\ UNCHANGED chatVars
  /\ Record("unmount", 0)

Next ==
  \/ UserNext
  \/ UserPrev
  \/ UserReset
  \/ UserTogglePlay
  \/ Tick
  \/ Render
  \/ \E s \in 1 .. (LEN - 1), o \in Outcomes : TipArrives(s, o)
  \/ Unmount

\* The playback controller and the enrichment of the stages; the chat is
\* not used.
Spec == Init /\ [][Next]_vars

\* The chat together with the controller.  The chat reads neither aiTip
\* nor the outstanding enrichment requests, and here these are answered
\* before the next navigation or tick.
NextChat ==
  \/ \E v \in Inputs : TypeInput(v)
  \/ UserSubmit
  \/ \E i \in 1 .. MaxTurns, o \in Outcomes : ReplyArrives(i, o)
  \/ \E s \in 1 .. (LEN - 1), o \in Outcomes : TipArrives(s, o)
  \/ /\ TotalInflight = 0
     /\ \/ UserNext
        \/ UserPrev
        \/ UserReset
        \/ UserTogglePlay
        \/ Tick
        \/ Render
        \/ Unmount

SpecChat == Init /\ [][NextChat]_vars

\* Auto-play without further user input: the user steps to a stage and
\* presses Play, after that only the interval, the renders it causes and
\* the enrichment responses act.  The interval keeps firing, a scheduled
\* render runs, and the service answers.
NextAuto ==
  \/ last.op \in {"init", "next"} /\ UserNext
  \/ last.op \in {"init", "next"} /\ UserTogglePlay
  \/ Tick
  \/ Render
  \/ \E s \in 1 .. (LEN - 1), o \in Outcomes : TipArrives(s, o)

SpecAuto ==
  /\ Init
  /\ [][NextAuto]_vars
  /\ WF_vars(Tick)
  /\ WF_vars(Render)
  /\ WF_vars(\E s \in 1 .. (LEN - 1), o \in Outcomes : TipArrives(s, o))

\* The chat with navigation and the timer, the page staying open, and the
\* service answering every chat request: a call to generateContent returns
\* or throws.
NextAsk ==
  \/ \E v \in Inputs : TypeInput(v)
  \/ UserSubmit
  \/ \E i \in 1 .. MaxTurns, o \in Outcomes : ReplyArrives(i, o)
  \/ \E s \in 1 .. (LEN - 1), o \in Outcomes : TipArrives(s, o)
  \/ /\ TotalInflight = 0
     /\ \/ UserNext
        \/ UserPrev
        \/ UserReset
        \/ UserTogglePlay
        \/ Tick
        \/ Render

SpecAsk ==
  /\ Init
  /\ [][NextAsk]_vars
  /\ WF_vars(\E i \in 1 .. MaxTurns, o \in Outcomes : ReplyArrives(i, o))

----------------------------------------------------------------------------
(* Claims C1 .. C10.  "The index" and "the flag" are the hook state        *)
(* (currentStepIndex, isPlaying); what is on screen is rendered.           *)

Abs(n) == IF n < 0 THEN 0 - n ELSE n

\* C1: in every reachable state the current stage index is within
\* 0 .. 6, so that STEPS_SEQUENCE[currentStepIndex] is a defined stage.
C1_IndexInRange == currentStepIndex \in 0 .. (LEN - 1)

\* C2: in every reachable state the displayed tip was produced for the
\* stage on screen (its static text, its placeholder or the result of a
\* request issued for it); a response for another stage never replaces it.
C2_TipBelongsToCurrentStage == aiTip.for = rendered.idx

\* C3: when the response of the request issued for ClientHello arrives
\* while ServerHello is on screen, the displayed tip is still the one set
\* for ServerHello.
C3_LateClientHelloDiscarded ==
  (last.op = "tip" /\ StepAt(last.arg) = "CLIENT_HELLO"
     /\ StepAt(rendered.idx) = "SERVER_HELLO" /\ mounted)
  => StepAt(aiTip.for) = "SERVER_HELLO"

\* C4: advance (by the user or by a timer tick) increases the index by
\* exactly 1 when it is below 6; at 6 it leaves the index unchanged and
\* clears the auto-advance flag.
C4_Advance ==
  [][ last'.op \in {"next", "tick"} =>
        IF currentStepIndex < LEN - 1
          THEN currentStepIndex' = currentStepIndex + 1
          ELSE currentStepIndex' = currentStepIndex /\ isPlaying' = FALSE ]_vars

\* C5: retreat decreases the index by exactly 1 when it is above 0 and
\* leaves it unchanged at 0; it never wraps to the last stage.
C5_Retreat ==
  /\ \A i \in 0 .. (LEN - 1), p \in BOOLEAN :
       handlePrev(0, [idx |-> i, playing |-> p]) = [idx |-> i, playing |-> p]
  /\ [][ last'.op = "prev" =>
           /\ currentStepIndex' = (IF currentStepIndex > 0 THEN currentStepIndex - 1
                                                           ELSE currentStepIndex)
           /\ isPlaying' = isPlaying ]_vars

C5_Witness ==
  /\ last.op = "prev"
  /\ last.idx > 0
  /\ currentStepIndex = last.idx - 1
  /\ rendered.idx = currentStepIndex

\* C6: reset leads from every reachable state to index 0 with the
\* auto-advance flag false.
C6_Reset ==
  [][ last'.op = "reset" => currentStepIndex' = 0 /\ isPlaying' = FALSE ]_vars

C6_Witness ==
  /\ last.op = "reset"
  /\ last.idx > 0
  /\ last.playing
  /\ currentStepIndex = 0
  /\ ~isPlaying

\* C7: togglePlay at index 6 leads to index 0 with the flag true; below 6
\* it negates the flag and leaves the index unchanged.
C7_TogglePlay ==
  [][ last'.op = "toggle" =>
        IF currentStepIndex = LEN - 1
          THEN currentStepIndex' = 0 /\ isPlaying' = TRUE
          ELSE currentStepIndex' = currentStepIndex /\ isPlaying' = ~isPlaying ]_vars

\* C8: the interval is live only while the flag is true and the component
\* is mounted; with the flag false, or after teardown, no tick can fire.
C8_NoTimerWhenPausedOrTornDown ==
  /\ interval.live => (rendered.playing /\ mounted)
  /\ (~isPlaying \/ ~mounted) => ~TickEnabled

C8_Witness ==
  /\ last.op = "toggle"
  /\ last.playing
  /\ ~isPlaying
  /\ ~interval.live
  /\ currentStepIndex \in 1 .. (LEN - 2)

\* C9 as stated: no state with index 6 has a live interval.
C9_NoTimerAtTerminal == currentStepIndex = LEN - 1 => ~interval.live

\* C9 as amended: with stage 6 on screen the interval is live exactly while
\* the flag on screen is true; the tick that fires there clears the flag,
\* and the render of the cleared flag cancels the interval.
C9_TimerAtTerminalUntilPaused ==
  rendered.idx = LEN - 1 => (interval.live <=> (rendered.playing /\ mounted))

C9_Witness ==
  /\ last.op = "render"
  /\ rendered.idx = LEN - 1
  /\ last.idx = LEN - 1
  /\ ~last.playing
  /\ ~rendered.playing
  /\ ~interval.live
  /\ mounted

\* C10 as stated: every transition that changes the index moves it to an
\* adjacent index.
C10_AdjacentOnly ==
  [][ currentStepIndex' # currentStepIndex =>
        Abs(currentStepIndex' - currentStepIndex) = 1 ]_vars

\* C10 as amended: every transition that changes the index moves it to an
\* adjacent index, except reset, and togglePlay at index 6, which move it
\* to 0.
C10_AdjacentOrReset ==
  [][ currentStepIndex' # currentStepIndex =>
        \/ Abs(currentStepIndex' - currentStepIndex) = 1
        \/ /\ currentStepIndex' = 0
           /\ \/ last'.op = "reset"
              \/ last'.op = "toggle" /\ currentStepIndex = LEN - 1 ]_vars

C10_Witness ==
  /\ last.op = "toggle"
  /\ last.idx = LEN - 1
  /\ currentStepIndex = 0
  /\ isPlaying

----------------------------------------------------------------------------
(* Claims C11 .. C20.                                                      *)

IsPrefix(a, b) == Len(a) <= Len(b) /\ SubSeq(b, 1, Len(a)) = a

ApologyText == << explainConcept(TRUE, "thrown") >>

\* The text is empty or consists of blanks.
IsBlank(t) == \A i \in DOMAIN t : t[i] = " "

\* C11: no single step increases the index by 2 or more, also when a user
\* advance and a timer advance were both made against the same tested index.
C11_NoStepSkips ==
  [][ currentStepIndex' - currentStepIndex < 2 ]_vars

\* The Next click ran on the closure of index last.ridx while the tick's
\* advance from that index was not yet rendered.
C11_Witness ==
  /\ last.op = "next"
  /\ last.idx = last.ridx + 1
  /\ currentStepIndex = last.idx + 1
  /\ currentStepIndex <= LEN - 1

\* C12: the initial state is (0, paused); once auto-advance is on and the
\* user gives no further input, the system eventually stays at (6, paused),
\* and until then the index only moves to the next index.
C12_AutoPlayEndsAtTerminal ==
  /\ currentStepIndex = 0 /\ ~isPlaying
  /\ [][ isPlaying => currentStepIndex' \in {currentStepIndex, currentStepIndex + 1} ]_vars
  /\ [](isPlaying => <>[](currentStepIndex = LEN - 1 /\ ~isPlaying))

C12_Witness ==
  /\ last.op = "render"
  /\ last.run >= LEN
  /\ currentStepIndex = LEN - 1
  /\ ~isPlaying
  /\ ~rendered.playing
  /\ ~interval.live

\* C13: starting from index 0, k advances made one after the other leave
\* the index at k for k <= 6, and a seventh leaves it at 6.
C13_SixAdvancesThenStay ==
  \A k \in 0 .. MaxRun : last.run = k => currentStepIndex = Min(k, LEN - 1)

C13_Witness ==
  /\ last.op = "tick"
  /\ last.run = LEN
  /\ last.idx = LEN - 1
  /\ currentStepIndex = LEN - 1

\* C14: at most one chat request is in flight; a submit while the previous
\* answer has not returned changes nothing and issues no request.
C14_OneChatRequest ==
  /\ [](Len(chatPending) <= 1)
  /\ [][ (last'.op = "submit" /\ isLoading) => UNCHANGED chatVars ]_vars

C14_Witness ==
  /\ last.op = "submit"
  /\ last.loading
  /\ ~IsBlank(chatInput)
  /\ Len(chatHistory) = last.len
  /\ Len(chatPending) = 1

\* C15: a submit while the first question is unresolved leaves the
\* transcript length unchanged; a question submitted after the answer
\* appends exactly one asker-turn, and its answer exactly one
\* responder-turn after it.
C15_ChatScenario ==
  [][ /\ (last'.op = "submit" /\ isLoading) => Len(chatHistory') = Len(chatHistory)
      /\ (last'.op = "submit" /\ ~isLoading /\ ~IsBlank(chatInput) /\ apiKey) =>
            /\ Len(chatHistory') = Len(chatHistory) + 1
            /\ chatHistory'[Len(chatHistory')].role = "user"
      /\ (last'.op = "submit" /\ ~isLoading /\ ~IsBlank(chatInput) /\ ~apiKey) =>
            /\ Len(chatHistory') = Len(chatHistory) + 2
            /\ chatHistory'[Len(chatHistory') - 1].role = "user"
            /\ chatHistory'[Len(chatHistory')].role = "model"
      /\ (last'.op = "reply" /\ mounted) =>
            /\ Len(chatHistory') = Len(chatHistory) + 1
            /\ chatHistory[Len(chatHistory)].role = "user"
            /\ chatHistory'[Len(chatHistory')].role = "model" ]_vars

C15_Witness ==
  /\ last.op = "reply"
  /\ last.len = 3
  /\ Len(chatHistory) = 4
  /\ ~isLoading
  /\ << chatHistory[1].role, chatHistory[2].role, chatHistory[3].role, chatHistory[4].role >>
       = << "user", "model", "user", "model" >>

\* C16: a submit with an empty or blank question changes neither the
\* transcript, nor the in-flight flag, nor the input, and issues no request.
C16_BlankSubmitNoOp ==
  [][ (last'.op = "submit" /\ IsBlank(chatInput)) => UNCHANGED chatVars ]_vars

C16_Witness ==
  /\ last.op = "submit"
  /\ ~last.loading
  /\ chatInput = << " " >>
  /\ Len(chatHistory) = last.len
  /\ ~isLoading
  /\ chatPending = << >>

\* C17: the transcript is append-only: across every transition the previous
\* transcript is a prefix of the next.
C17_AppendOnly ==
  [][ IsPrefix(chatHistory, chatHistory') ]_vars

C17_Witness ==
  /\ last.op = "submit"
  /\ last.len = 2
  /\ Len(chatHistory) = 3
  /\ chatHistory[3].role = "user"

\* C18: the responder-turn of a failed request carries the apology string
\* and is marked failed, the responder-turn of a successful one is not.
C18_FailedTurnMarked ==
  \A i \in DOMAIN chatHistory :
    chatHistory[i].role = "model" =>
      (chatHistory[i].isError <=> chatHistory[i].text = ApologyText)

\* C19: a failed chat request clears the in-flight flag and the next
\* non-blank submit is accepted; a failed chat or enrichment request tears
\* nothing down and leaves the controller as it was.
C19_FailureNotBlocking ==
  [][ /\ (last'.op = "reply" /\ last'.arg = 1 /\ mounted) =>
            /\ ~isLoading'
            /\ ~sendDisabled'
      /\ (last'.op \in {"reply", "tip"}) =>
            /\ mounted' = mounted
            /\ currentStepIndex' = currentStepIndex
            /\ isPlaying' = isPlaying
            /\ rendered' = rendered
            /\ interval' = interval
      /\ (last'.op = "submit" /\ ~isLoading /\ ~IsBlank(chatInput)) =>
            Len(chatHistory') > Len(chatHistory) ]_vars

\* A question was accepted after the previous one had failed.
C19_Witness ==
  /\ last.op = "submit"
  /\ Len(chatHistory) = 3
  /\ chatHistory[2].text = ApologyText
  /\ chatHistory[3].role = "user"
  /\ isLoading

----------------------------------------------------------------------------
(* Claims C21 .. C30.                                                      *)

\* C21: when the service call of an enrichment request throws, the fixed
\* fallback string is delivered as the result for the stage of that
\* request, nothing is torn down, the request is used up and no other is
\* issued in its place, and the index and the auto-advance flag are as
\* before.
C21_EnrichmentFailure ==
  [][ (last'.op = "tip" /\ last'.out = "thrown") =>
        /\ mounted =>
              aiTip' = [text |-> "AI Service temporarily unavailable.", for |-> last'.arg]
        /\ mounted' = mounted
        /\ inflight' = [inflight EXCEPT ![last'.arg] = @ - 1]
        /\ currentStepIndex' = currentStepIndex
        /\ isPlaying' = isPlaying
        /\ rendered' = rendered
        /\ interval' = interval ]_vars

\* The request of the stage on screen failed while auto-play was on.
C21_Witness ==
  /\ last.op = "tip"
  /\ last.out = "thrown"
  /\ last.arg = rendered.idx
  /\ aiTip.text = "AI Service temporarily unavailable."
  /\ inflight[last.arg] = 0
  /\ isPlaying
  /\ interval.live
  /\ mounted

\* C22: every change of the stage on screen to a stage other than Idle, a
\* stage visited before included, sets the tip to the placeholder and issues
\* exactly one request, for that stage; no other step issues a request.
\* Without a key the one call of getStepDeepDive resolves without a request
\* to the service, and its result has replaced the placeholder before any
\* other event is handled.
C22_EntryIssuesOneRequest ==
  [][ /\ (rendered'.idx # rendered.idx /\ rendered'.idx # 0) =>
            IF apiKey
              THEN /\ aiTip' = [text |-> PLACEHOLDER, for |-> rendered'.idx]
                   /\ inflight' = [inflight EXCEPT ![rendered'.idx] = @ + 1]
              ELSE /\ aiTip' = [text |-> "API Key required for AI insights.",
                                for |-> rendered'.idx]
                   /\ inflight' = inflight
      /\ \A s \in DOMAIN inflight :
            inflight'[s] > inflight[s] => (rendered'.idx = s /\ rendered.idx # s) ]_vars

\* Stage 1 is entered again, by a retreat from stage 2.
C22_Witness ==
  /\ last.op = "prev"
  /\ last.ridx = 2
  /\ rendered.idx = 1
  /\ apiKey
  /\ aiTip = [text |-> PLACEHOLDER, for |-> 1]
  /\ inflight[1] > 0
  /\ mounted

\* C23: entering Idle issues no request, and while Idle is on screen the
\* tip is the static ready message, also when responses of requests issued
\* for earlier stages arrive.
C23_IdleShowsReady ==
  /\ []((rendered.idx = 0 /\ mounted) => aiTip.text = READY)
  /\ [][ (rendered'.idx = 0 /\ rendered.idx # 0) => inflight' = inflight ]_vars

\* C24: once every request has resolved, the tip of a stage other than
\* Idle that stays on screen is the result of the request issued for that
\* stage, whatever the order the responses arrived in.
C24_SettledTipIsCurrent ==
  (mounted /\ ~Dirty /\ rendered.idx # 0 /\ apiKey /\ TotalInflight = 0)
    => aiTip.for = rendered.idx

\* C25: for every index i in 0 .. 6 the derived render state has
\* isEncrypted true exactly when i = 6, and its step is STEPS_SEQUENCE[i];
\* so has the one of the render on screen.
C25_TunnelOnlyAtSecureTunnel ==
  /\ \A i \in 0 .. (LEN - 1) :
       /\ simulationState(i).isEncrypted <=> (i = 6)
       /\ simulationState(i).step = STEPS_SEQUENCE[i + 1]
  /\ simulationState(rendered.idx).isEncrypted <=> (rendered.idx = 6)
  /\ simulationState(rendered.idx).step = STEPS_SEQUENCE[rendered.idx + 1]

C25_Witness ==
  /\ rendered.idx = 6
  /\ currentStepIndex = 6
  /\ simulationState(rendered.idx).isEncrypted
  /\ simulationState(rendered.idx).step = "SECURE_TUNNEL"
  /\ mounted

\* C26: for every index i in 0 .. 6 the derived render state has
\* keysExchanged true exactly when i >= 3, the stage Key Derivation, and
\* each of clientKey and serverKey is present exactly when keysExchanged is
\* true; the render state on screen is the one of the index on screen,
\* whatever the rest of the state.
C26_KeysFromKeyDerivation ==
  /\ STEPS_SEQUENCE[3 + 1] = "KEY_DERIVATION"
  /\ \A i \in 0 .. (LEN - 1) :
       /\ simulationState(i).keysExchanged <=> (i >= 3)
       /\ (simulationState(i).clientKey = "generated") <=> simulationState(i).keysExchanged
       /\ (simulationState(i).serverKey = "generated") <=> simulationState(i).keysExchanged
  /\ simulationState(rendered.idx).keysExchanged <=> (rendered.idx >= 3)
  /\ (simulationState(rendered.idx).clientKey = "generated") <=> (rendered.idx >= 3)
  /\ (simulationState(rendered.idx).serverKey = "generated") <=> (rendered.idx >= 3)

\* Back at Server Hello after the keys were shown at Key Derivation.
C26_Witness ==
  /\ last.op = "prev"
  /\ last.ridx = 3
  /\ rendered.idx = 2
  /\ ~simulationState(rendered.idx).keysExchanged
  /\ simulationState(last.ridx).keysExchanged
  /\ simulationState(rendered.idx).serverKey = "undefined"
  /\ mounted

\* C27: a chat submit and the arrival of a chat or enrichment response
\* leave the index and the auto-advance flag unchanged; advance, retreat,
\* reset, togglePlay, a timer tick with its render, and the arrival of an
\* enrichment response leave the transcript and the in-flight flag
\* unchanged.
C27_SingleWriter ==
  [][ /\ last'.op \in {"submit", "reply", "tip"} =>
            /\ currentStepIndex' = currentStepIndex
            /\ isPlaying' = isPlaying
      /\ last'.op \in {"next", "prev", "reset", "toggle", "tick", "render", "tip"} =>
            /\ chatHistory' = chatHistory
            /\ isLoading' = isLoading ]_vars

\* The timer advanced the stage while a question was awaiting its answer.
C27_Witness ==
  /\ last.op = "tick"
  /\ last.loading
  /\ currentStepIndex = last.idx + 1
  /\ isLoading
  /\ Len(chatHistory) = last.len
  /\ Len(chatPending) = 1
  /\ mounted

\* C28: the request of an accepted question carries exactly that question
\* and the title of the stage on screen when it was submitted, and nothing
\* of the transcript; no other step than a submit adds a request, and until
\* its answer arrives the request stays as it was issued, whatever stage
\* is entered meanwhile.
C28_RequestCarriesQuestionAndTitle ==
  [][ /\ (last'.op = "submit" /\ ~isLoading /\ ~IsBlank(chatInput) /\ apiKey) =>
            chatPending' = Append(chatPending,
                                  [concept |-> chatInput, context |-> Title(rendered.idx)])
      /\ last'.op \notin {"submit", "reply"} => chatPending' = chatPending
      /\ last'.op = "reply" => Len(chatPending') = Len(chatPending) - 1
      /\ \A i \in DOMAIN chatPending' :
            DOMAIN chatPending'[i] = {"concept", "context"} ]_vars

\* The question was asked at an earlier stage than the one now on screen.
C28_Witness ==
  /\ Len(chatPending) = 1
  /\ chatPending[1].concept = << " ", "a" >>
  /\ chatPending[1].context = "2. Client Hello"
  /\ rendered.idx = 2
  /\ last.op = "next"
  /\ isLoading
  /\ mounted

CountRole(h, r) == Cardinality({ i \in DOMAIN h : h[i].role = r })

\* C29: in every reachable state the transcript alternates asker,
\* responder, asker, ... starting with an asker-turn; the number of
\* asker-turns exceeds the number of responder-turns by 0 or 1, and by 1
\* exactly when the in-flight flag is true and a chat request is
\* outstanding.  The states are those of the mounted component: after a
\* teardown there is no transcript, and the answer of a request still
\* outstanding then is dropped.
C29_Alternation ==
  LET diff == CountRole(chatHistory, "user") - CountRole(chatHistory, "model") IN
    /\ \A i \in DOMAIN chatHistory :
         chatHistory[i].role = (IF i % 2 = 1 THEN "user" ELSE "model")
    /\ diff \in {0, 1}
    /\ (diff = 1) <=> isLoading
    /\ Len(chatPending) = 1 => isLoading
    /\ mounted => (isLoading => Len(chatPending) = 1)

\* A second question awaits its answer.
C29_Witness ==
  /\ last.op = "submit"
  /\ Len(chatHistory) = 3
  /\ chatHistory[3].role = "user"
  /\ isLoading
  /\ Len(chatPending) = 1
  /\ mounted

\* C30: every accepted question is eventually answered: when the service
\* call returns or fails, one responder-turn is appended for it and the
\* in-flight flag becomes false, whatever navigation and timer activity
\* happens in between.
C30_EveryQuestionAnswered ==
  \A n \in 1 .. MaxTurns :
    (isLoading /\ Len(chatHistory) = n)
      ~> (~isLoading /\ Len(chatHistory) = n + 1
            /\ chatHistory[n + 1].role = "model")

----------------------------------------------------------------------------
(* Claims C31 .. C37.                                                      *)

\* C31: an operation that leaves the stage as it is (advance at index 6,
\* retreat at index 0, reset at index 0, togglePlay below index 6, a timer
\* tick at index 6 and its render) issues no request and leaves the tip
\* unchanged: a step of the controller that does not change the stage on
\* screen changes neither.
C31_NoStageChangeNoRequest ==
  /\ \A i \in 0 .. (LEN - 1), p \in BOOLEAN :
       LET st == [idx |-> i, playing |-> p] IN
         /\ handleNext(LEN - 1, st).idx = i
         /\ handlePrev(0, st).idx = i
         /\ i < LEN - 1 => togglePlay(i, p, st).idx = i
  /\ handleReset([idx |-> 0, playing |-> TRUE]).idx = 0
  /\ [][ (last'.op \in {"next", "prev", "reset", "toggle", "tick", "render"}
            /\ rendered'.idx = rendered.idx) =>
          (inflight' = inflight /\ aiTip' = aiTip) ]_vars

\* Auto-play was started at a stage whose tip had arrived.
C31_Witness ==
  /\ last.op = "toggle"
  /\ last.ridx \in 1 .. (LEN - 2)
  /\ rendered.idx = last.ridx
  /\ isPlaying
  /\ apiKey
  /\ aiTip = [text |-> "response.text", for |-> rendered.idx]
  /\ TotalInflight = 0
  /\ mounted

\* C32: an advance at an index below 6 and a retreat at any index leave
\* the auto-advance flag as it is: navigation by hand during auto-play does
\* not pause it, and navigation while paused does not start it.
C32_NavigationKeepsFlag ==
  [][ ((last'.op = "next" /\ currentStepIndex < LEN - 1) \/ last'.op = "prev") =>
        /\ isPlaying' = isPlaying
        /\ isPlaying => (mounted' /\ interval'.live)
        /\ ~isPlaying => ~interval'.live ]_vars

\* A retreat during auto-play.
C32_Witness ==
  /\ last.op = "prev"
  /\ last.playing
  /\ last.idx > 1
  /\ currentStepIndex = last.idx - 1
  /\ isPlaying
  /\ interval.live
  /\ mounted

\* C33: while auto-advance is on and the index is below 6, a timer tick
\* increases the index by exactly 1 and keeps the flag on; the timer clears
\* the flag only by a tick that fires with the index already 6, so that
\* auto-play passes through (6, playing) with a live interval before it
\* reaches (6, paused).
C33_TickAdvancesThenStops ==
  [][ last'.op = "tick" =>
        /\ isPlaying /\ interval.live
        /\ IF currentStepIndex < LEN - 1
             THEN /\ currentStepIndex' = currentStepIndex + 1
                  /\ isPlaying'
             ELSE /\ currentStepIndex = LEN - 1
                  /\ rendered = [idx |-> LEN - 1, playing |-> TRUE]
                  /\ currentStepIndex' = currentStepIndex
                  /\ ~isPlaying' ]_vars

\* The tick at the last stage has cleared the flag; its render is pending.
C33_Witness ==
  /\ last.op = "tick"
  /\ last.idx = LEN - 1
  /\ last.playing
  /\ currentStepIndex = LEN - 1
  /\ ~isPlaying
  /\ rendered = [idx |-> LEN - 1, playing |-> TRUE]
  /\ interval.live

\* C34: explainConcept and getStepDeepDive resolve, for every service
\* outcome with and without a key, to a string that is not empty; an empty
\* response text is replaced by the fixed default.  So is every tip
\* delivered and every answer appended.
C34_NeverEmpty ==
  /\ \A key \in BOOLEAN, outcome \in Outcomes :
       /\ explainConcept(key, outcome) # ""
       /\ getStepDeepDive(key, outcome) # ""
  /\ explainConcept(TRUE, "empty") = "No explanation generated."
  /\ getStepDeepDive(TRUE, "empty") = "No details available."
  /\ aiTip.text # ""
  /\ \A i \in DOMAIN chatHistory :
       chatHistory[i].role = "model" => chatHistory[i].text # << "" >>
  /\ (last.op = "reply" /\ last.out = "empty" /\ mounted) =>
       chatHistory[Len(chatHistory)].text = << "No explanation generated." >>
  /\ (last.op = "tip" /\ last.out = "empty" /\ mounted) =>
       aiTip.text = "No details available."

\* The service answered a question with an empty text.
C34_Witness ==
  /\ last.op = "reply"
  /\ last.out = "empty"
  /\ mounted
  /\ Len(chatHistory) = 2
  /\ chatHistory[2] = [role |-> "model", text |-> << "No explanation generated." >>,
                        isError |-> FALSE]
  /\ ~isLoading

\* The hook state (index, flag) after operation op, from the controller's
\* own state alone.
HookAfter(op) ==
  LET c == IF op = "tick" THEN interval.idx ELSE rendered.idx IN
    IF op \in {"next", "tick"}
      THEN IF c < LEN - 1 THEN [idx |-> currentStepIndex + 1, playing |-> isPlaying]
                          ELSE [idx |-> currentStepIndex, playing |-> FALSE]
    ELSE IF op = "prev"
      THEN IF c > 0 THEN [idx |-> currentStepIndex - 1, playing |-> isPlaying]
                    ELSE Hook
    ELSE IF op = "reset" THEN [idx |-> 0, playing |-> FALSE]
    ELSE IF op = "toggle"
      THEN IF c = LEN - 1 THEN [idx |-> 0, playing |-> TRUE]
                          ELSE [idx |-> currentStepIndex, playing |-> ~rendered.playing]
    ELSE Hook

\* C35: the controller's state does not depend on the timing of the
\* service.  The arrival of a tip or of an answer, and a chat submit, leave
\* index, flag, render, interval and mounting as they are; and what a user
\* operation or a timer tick makes of them is a function of the operation
\* and of these five alone.  Hence a given sequence of operations and ticks
\* ends in the same (index, flag) for every order, delay and outcome of the
\* responses.
C35_ControllerIndependentOfService ==
  [][ LET op == last'.op
          h == HookAfter(op) IN
        /\ op \in {"submit", "reply", "tip", "type"} =>
              UNCHANGED << currentStepIndex, isPlaying, rendered, interval, mounted >>
        /\ op \in {"next", "prev", "reset", "toggle", "tick", "render"} =>
              /\ currentStepIndex' = h.idx
              /\ isPlaying' = h.playing
        /\ op = "tick" => UNCHANGED << rendered, interval, mounted >>
        /\ op \in {"next", "prev", "reset", "toggle", "render"} =>
              IF h.idx \in 0 .. (LEN - 1)
                THEN /\ rendered' = h
                     /\ mounted' = mounted
                     /\ interval' = (IF h = rendered THEN interval
                                     ELSE IF h.playing THEN [live |-> TRUE, idx |-> h.idx]
                                     ELSE NoInterval)
                ELSE /\ rendered' = rendered
                     /\ mounted' = FALSE
                     /\ interval' = NoInterval
        /\ op = "unmount" =>
              /\ mounted' = FALSE
              /\ interval' = NoInterval
              /\ UNCHANGED << currentStepIndex, isPlaying, rendered >> ]_vars

\* A reset made while a question awaits its answer.
C35_Witness ==
  /\ last.op = "reset"
  /\ last.loading
  /\ last.idx > 0
  /\ currentStepIndex = 0
  /\ ~isPlaying
  /\ isLoading
  /\ Len(chatPending) = 1
  /\ mounted

\* C36: an accepted submit stores the question as typed, blanks included,
\* in the asker-turn, sends the same text in the request, and clears the
\* input; the input is not restored when the request fails.
C36_QuestionAsTyped ==
  [][ /\ (last'.op = "submit" /\ ~isLoading /\ ~IsBlank(chatInput)) =>
            /\ chatInput' = << >>
            /\ chatHistory'[Len(chatHistory) + 1] =
                  [role |-> "user", text |-> chatInput, isError |-> FALSE]
            /\ apiKey =>
                  /\ Len(chatPending') = Len(chatPending) + 1
                  /\ chatPending'[Len(chatPending')].concept = chatInput
      /\ last'.op = "reply" => chatInput' = chatInput ]_vars

\* The request of the question " a" has failed; the input is still empty.
C36_Witness ==
  /\ last.op = "reply"
  /\ last.out = "thrown"
  /\ mounted
  /\ Len(chatHistory) = 2
  /\ chatHistory[1].text = << " ", "a" >>
  /\ chatHistory[2].text = ApologyText
  /\ chatInput = << >>

----------------------------------------------------------------------------
(* The earlier revision of the component, src/unnamed/part_001.  Its       *)
(* STEPS_SEQUENCE, its titles, its disabled attributes and the service     *)
(* module are those of src/App.tsx.                                        *)

handleNext_part001(c, st) ==
  IF c < LEN - 1 THEN [st EXCEPT !.idx = @ + 1]
                 ELSE [st EXCEPT !.playing = FALSE]

handlePrev_part001(c, st) ==
  IF c > 0 THEN [st EXCEPT !.idx = @ - 1] ELSE st

handleReset_part001(st) == [idx |-> 0, playing |-> FALSE]

\* Variant of togglePlay_part001: no replay from the last stage.
togglePlay_part001_NoReplay(c, p, st) == [st EXCEPT !.playing = ~p]

togglePlay_part001(c, p, st) ==
  IF c = LEN - 1 THEN [handleReset_part001(st) EXCEPT !.playing = TRUE]
                 ELSE [st EXCEPT !.playing = ~p]

\* useEffect(..., [isPlaying, currentStepIndex]) with a period of 6000 ms.
timerEffect_part001(old, new, iv) ==
  IF old = new THEN iv
  ELSE IF new.playing THEN [live |-> TRUE, idx |-> new.idx]
  ELSE NoInterval

PLACEHOLDER_part001 == "Analyzing..."
READY_part001 == "Ready to analyze handshake."

tipEffect_part001(old, new, tip) ==
  IF StepAt(old.idx) = StepAt(new.idx) THEN tip
  ELSE IF StepAt(new.idx) = "IDLE" THEN [text |-> READY_part001, for |-> new.idx]
  ELSE IF apiKey THEN [text |-> PLACEHOLDER_part001, for |-> new.idx]
  ELSE [text |-> getStepDeepDive(apiKey, "text"), for |-> new.idx]

\* handleChatSubmit of part_001 up to its await, on the chat state.
handleChatSubmit_part001(input, history, loading) ==
  IF trim(input) = << >>
    THEN [input |-> input, history |-> history, loading |-> loading]
    ELSE [input |-> << >>,
          history |-> Append(history, [role |-> "user", text |-> input, isError |-> FALSE]),
          loading |-> TRUE]

\* The continuation of handleChatSubmit of part_001 after its await.
chatContinuation_part001(prev, response) ==
  [history |-> Append(prev, [role |-> "model", text |-> << response >>, isError |-> FALSE]),
   loading |-> FALSE]

\* <button type="submit" disabled={isLoading}> of part_001.
sendDisabled_part001 == isLoading

\* The strings of part_001 in the place of those of src/App.tsx.
AsApp(text) ==
  IF text = PLACEHOLDER_part001 THEN PLACEHOLDER
  ELSE IF text = READY_part001 THEN READY
  ELSE text

\* C37: the two revisions implement the same state machine.  From every
\* state src/App.tsx reaches, the handlers, effects and continuations of
\* src/unnamed/part_001 applied to the same event give the index, flag,
\* interval, in-flight flag, input and transcript that src/App.tsx gives,
\* and the same tip but for the placeholder and ready strings; so, run
\* side by side on the same events, the two stay equal at every step.
C37_RevisionsAgree ==
  /\ PLACEHOLDER_part001 # PLACEHOLDER
  /\ READY_part001 # READY
  /\ [][ LET op == last'.op
              hook1 == [idx |-> currentStepIndex', playing |-> isPlaying']
              chat1 == [input |-> chatInput', history |-> chatHistory',
                        loading |-> isLoading']
              tip1 == tipEffect_part001(rendered, rendered', aiTip) IN
            /\ op = "next" => hook1 = handleNext_part001(rendered.idx, Hook)
            /\ op = "tick" => hook1 = handleNext_part001(interval.idx, Hook)
            /\ op = "prev" => hook1 = handlePrev_part001(rendered.idx, Hook)
            /\ op = "reset" => hook1 = handleReset_part001(Hook)
            /\ op = "toggle" =>
                  hook1 = togglePlay_part001(rendered.idx, rendered.playing, Hook)
            /\ op \in {"render", "submit", "reply", "tip", "type"} => hook1 = Hook
            /\ (op \in {"next", "prev", "reset", "toggle", "render"} /\ mounted') =>
                  /\ interval' = timerEffect_part001(rendered, rendered', interval)
                  /\ aiTip' = [tip1 EXCEPT !.text = AsApp(@)]
            /\ op = "submit" =>
                  chat1 = (IF sendDisabled_part001
                             THEN [input |-> chatInput, history |-> chatHistory,
                                   loading |-> isLoading]
                           ELSE LET a == handleChatSubmit_part001(chatInput, chatHistory,
                                                                   isLoading) IN
                             IF apiKey \/ a.history = chatHistory THEN a
                             ELSE [input |-> a.input] @@
                                  chatContinuation_part001(a.history,
                                                           explainConcept(apiKey, "text")))
            /\ (op = "reply" /\ mounted) =>
                  chat1 = [input |-> chatInput] @@
                          chatContinuation_part001(chatHistory,
                                                   explainConcept(apiKey, last'.out))
            /\ op \in {"next", "prev", "reset", "toggle", "tick", "render", "tip"} =>
                  UNCHANGED << chatInput, chatHistory, isLoading >> ]_vars

\* A replay from the last stage, after a question was asked and answered.
C37_Witness ==
  /\ last.op = "toggle"
  /\ last.idx = LEN - 1
  /\ last.ridx = LEN - 1
  /\ currentStepIndex = 0
  /\ isPlaying
  /\ interval.live
  /\ Len(chatHistory) = 2
  /\ chatHistory[2].role = "model"
  /\ mounted

====
